---- MODULE Spec2Model ----
(***************************************************************************)
(* Model of the hw2 word-embedding trainer: the data-shaping functions of  *)
(* hw2/utils.py (train/validation split, CBOW and skip-gram windowing) and *)
(* the control flow of hw2/train.py (main, setup_dataloader, train_epoch,  *)
(* validate).                                                              *)
(*                                                                         *)
(* Python lists are 0-indexed; a list is modelled as a TLA+ sequence and   *)
(* the element at Python index i is read with At(list, i).                 *)
(***************************************************************************)
EXTENDS Integers, Sequences, FiniteSets, TLC

\* ------------------------------------------------------------------ bounds
\* Longest encoded sentence (padded length) fed to the windowing functions.
MaxLen == 5
\* Largest context_window_len tried.
MaxWindow == 4
\* Most sentences in the list given to create_train_val_splits.
MaxSentences == 3
\* Largest num_epochs / val_every / save_every on the command line.
MaxEpochs == 3
MaxEvery == 3
\* Most batches a loader yields, and most train_epoch / validate calls made.
MaxBatches == 2
MaxCalls == 4

\* ------------------------------------------------------- program constants
\* prop_train=0.7, in tenths (utils.py line 43).
DefaultPropTrain == 7
\* context_window_len = 2 in main (train.py line 184).
MainContextWindowLen == 2

VARIABLES
    encoded_sentences,   \* list of encoded sentences (each a list of token ids)
    lens,                \* lens[k] = <<number of real tokens of sentence k>>
    prop_train,          \* prop_train argument, in tenths
    context_window_len,  \* context_window_len argument
    pad_token,           \* pad_token argument
    n_vocab,             \* n_vocab argument
    train_idxs,          \* result of np.random.choice in create_train_val_splits
    ret,                 \* tuple returned by the last data-shaping call
    visited,             \* positions <<sentence_index, i>> that produced an example
    substituted,         \* TRUE iff get_token returned pad_token for an out-of-range index
    pc,                  \* control position / raised exception
    args,                \* parsed command line of train.py
    word_vec_exists,     \* os.path.exists(word_vec_file)
    analogies_loaded,    \* external_val_analogies has been read
    downstream_runs,     \* number of downstream_validation calls
    loaders_built,       \* setup_dataloader returned its loaders
    epochs_trained,      \* training passes completed by main
    ckpt_epochs,         \* epochs at which torch.save(model, ckpt_file) ran
    word_vec_saved,      \* save_word2vec_format ran
    epoch,               \* loop variable of main's epoch loop
    model_mode,          \* "train" or "eval" (torch.nn.Module.training)
    params,              \* number of optimizer.step() updates applied to the model
    params_before,       \* params when the last train_epoch / validate call began
    loader_len,          \* number of batches the train and the val loader yield
    batch_log,           \* per batch of the last pass: mode seen and optimizer calls
    calls                \* number of train_epoch / validate calls made

dataVars == <<encoded_sentences, lens, prop_train, context_window_len, pad_token,
              n_vocab, train_idxs, ret, visited, substituted>>
mainVars == <<args, word_vec_exists, analogies_loaded, downstream_runs, loaders_built,
              epochs_trained, ckpt_epochs, word_vec_saved, epoch>>
epochVars == <<model_mode, params, params_before, loader_len, batch_log, calls>>
vars == <<dataVars, mainVars, epochVars, pc>>

\* ----------------------------------------------------------------- helpers
\* list[i] with a Python (0-based) index.
At(list, i) == list[i + 1]

\* Ids of real vocabulary entries; id 0 is what the encoder pads with.
RealTokens == {1, 2}

\* All sequences over S of length 0..n.
SeqUpTo(S, n) == UNION {[1..k -> S] : k \in 0..n}

\* What data_utils.encode_data hands over: a row of padded length L whose first
\* l positions hold real token ids (never 0) and whose remaining positions hold 0,
\* together with l, the row's entry of lens.
EncodedRows(maxLen) ==
    UNION {
        { [s |-> [p \in 1..L |-> IF p <= l THEN real[p] ELSE 0], l |-> l] :
            real \in [1..l -> RealTokens] } :
        <<L, l>> \in {x \in (0..maxLen) \X (0..maxLen) : x[2] <= x[1]} }

\* ------------------------------------------------- utils.get_token (36-40)
\* The condition under which get_token returns pad_token instead of a list element.
OutOfRange(sentence, index) == index < 0 \/ index >= Len(sentence)

get_token(sentence, index, pad) ==
    IF OutOfRange(sentence, index) THEN pad ELSE At(sentence, index)

\* ------------------------------------ utils.create_train_val_splits (43-54)
\* size=int(len(all_sentences) * prop_train + 0.5), prop_train in tenths.
\* (For the proportions and lengths drawn here the float product is exact.)
TrainSize(n, prop) == (2 * n * prop + 10) \div 20

\* np.random.choice(list(range(n)), size=size, replace=False): the possible
\* results, as the set of indexes drawn (the code only tests membership).
ChoiceWithReplacement(n, size) ==
    {T \in SUBSET (0..(n - 1)) : Cardinality(T) <= size /\ (size > 0 => T # {})}

Choice(n, size) == {T \in SUBSET (0..(n - 1)) : Cardinality(T) = size}

\* [all_sentences[idx] for idx in range(len(all_sentences)) if idx in train_idxs]
RECURSIVE KeepIn(_, _, _)
KeepIn(all_sentences, idx, idxs) ==
    IF idx >= Len(all_sentences) THEN <<>>
    ELSE (IF idx \in idxs THEN <<At(all_sentences, idx)>> ELSE <<>>)
         \o KeepIn(all_sentences, idx + 1, idxs)

\* [all_sentences[idx] for idx in range(len(all_sentences)) if idx not in train_idxs]
RECURSIVE KeepNotIn(_, _, _)
KeepNotIn(all_sentences, idx, idxs) ==
    IF idx >= Len(all_sentences) THEN <<>>
    ELSE (IF idx \notin idxs THEN <<At(all_sentences, idx)>> ELSE <<>>)
         \o KeepNotIn(all_sentences, idx + 1, idxs)

\* The returned tuple (train_sentences, val_sentences) for a given random draw.
create_train_val_splits(all_sentences, idxs) ==
    <<KeepIn(all_sentences, 0, idxs), KeepNotIn(all_sentences, 0, idxs)>>

\* Signature of create_train_val_splits: its parameters and those with a default.
SplitParams == {"all_sentences", "prop_train"}
SplitDefaults == {"prop_train"}

\* Python's binding of a keyword-only call: every keyword names a parameter and
\* every parameter without a default is given; otherwise the call raises TypeError.
CallBinds(kwargs) ==
    /\ kwargs \subseteq SplitParams
    /\ (SplitParams \ SplitDefaults) \subseteq kwargs

\* Keywords setup_dataloader passes (train.py 53-54).
SetupKwargs == {"all_sentences", "lens"}

\* Number of names setup_dataloader unpacks the result into (train.py 53).
SetupUnpacks(result) == Len(result) = 4

\* A direct call create_train_val_splits(encoded_sentences, prop_train).
CallCreateTrainValSplits ==
    /\ pc = "call_split"
    /\ \E idxs \in Choice(Len(encoded_sentences),
                          TrainSize(Len(encoded_sentences), prop_train)) :
          /\ train_idxs' = idxs
          /\ ret' = create_train_val_splits(encoded_sentences, idxs)
    /\ pc' = "split_done"
    /\ UNCHANGED <<encoded_sentences, lens, prop_train, context_window_len, pad_token,
                   n_vocab, visited, substituted>>
    /\ UNCHANGED <<mainVars, epochVars>>

\* setup_dataloader from the split onwards (train.py 51-70): the call
\* utils.create_train_val_splits(all_sentences=encoded_sentences, lens=lens) and
\* the unpacking of its result into four names.
SetupDataloader ==
    /\ pc = "setup_dataloader"
    /\ IF ~CallBinds(SetupKwargs)
       THEN /\ pc' = "TypeError"
            /\ UNCHANGED <<train_idxs, ret>>
       ELSE \E idxs \in Choice(Len(encoded_sentences),
                               TrainSize(Len(encoded_sentences), DefaultPropTrain)) :
               /\ train_idxs' = idxs
               /\ ret' = create_train_val_splits(encoded_sentences, idxs)
               /\ pc' = IF SetupUnpacks(ret') THEN "splits_unpacked" ELSE "ValueError"
    /\ UNCHANGED <<encoded_sentences, lens, prop_train, context_window_len, pad_token,
                   n_vocab, visited, substituted>>
    /\ UNCHANGED <<mainVars, epochVars>>

\* ------------------------------- utils.get_input_label_data_cbow (81-114)
\* bound = int(context_window_len / 2), for context_window_len >= 0.
Bound(cwl) == cwl \div 2

\* for index in range(index, stop): if index != i: context.append(get_token(...))
\* Each entry also records whether get_token took its pad_token branch.
RECURSIVE ContextLoopNoSkip(_, _, _, _, _)
ContextLoopNoSkip(sentence, index, stop, i, pad) ==
    IF index >= stop THEN <<>>
    ELSE <<[tok |-> get_token(sentence, index, pad),
            pad |-> OutOfRange(sentence, index)]>>
         \o ContextLoopNoSkip(sentence, index + 1, stop, i, pad)

RECURSIVE ContextLoop(_, _, _, _, _)
ContextLoop(sentence, index, stop, i, pad) ==
    IF index >= stop THEN <<>>
    ELSE (IF index # i
          THEN <<[tok |-> get_token(sentence, index, pad),
                  pad |-> OutOfRange(sentence, index)]>>
          ELSE <<>>)
         \o ContextLoop(sentence, index + 1, stop, i, pad)

\* for i in range(i, len(sentence) - bound): if i >= lens[sentence_index][0]: break; ...
\* The examples of one sentence, from loop position i on.
RECURSIVE CbowInnerNoRightBound(_, _, _, _, _)
CbowInnerNoRightBound(sentence, i, bound, pad, len0) ==
    IF i >= Len(sentence) THEN <<>>
    ELSE IF i >= len0 THEN <<>>
    ELSE <<[i |-> i, token |-> At(sentence, i),
            context |-> ContextLoop(sentence, i - bound, i + bound + 1, i, pad)]>>
         \o CbowInnerNoRightBound(sentence, i + 1, bound, pad, len0)

RECURSIVE CbowInner(_, _, _, _, _)
CbowInner(sentence, i, bound, pad, len0) ==
    IF i >= Len(sentence) - bound THEN <<>>
    ELSE IF i >= len0 THEN <<>>
    ELSE <<[i |-> i, token |-> At(sentence, i),
            context |-> ContextLoop(sentence, i - bound, i + bound + 1, i, pad)]>>
         \o CbowInner(sentence, i + 1, bound, pad, len0)

\* for (sentence_index, sentence) in enumerate(sentences): the examples of all
\* sentences from sentence_index on, each tagged with its sentence_index.
RECURSIVE CbowOuter(_, _, _, _, _)
CbowOuter(sentences, lns, sentence_index, bound, pad) ==
    IF sentence_index >= Len(sentences) THEN <<>>
    ELSE LET inner == CbowInner(At(sentences, sentence_index), bound, bound, pad,
                                At(At(lns, sentence_index), 0))
         IN [k \in 1..Len(inner) |->
                [s |-> sentence_index, i |-> inner[k].i, token |-> inner[k].token,
                 context |-> inner[k].context]]
            \o CbowOuter(sentences, lns, sentence_index + 1, bound, pad)

\* The returned pair (numpy.array(context_list), numpy.array(tokens)).
get_input_label_data_cbow(sentences, cwl, pad, lns) ==
    LET ex == CbowOuter(sentences, lns, 0, Bound(cwl), pad)
    IN <<[k \in 1..Len(ex) |-> [j \in 1..Len(ex[k].context) |-> ex[k].context[j].tok]],
         [k \in 1..Len(ex) |-> ex[k].token]>>

CallCbow ==
    /\ pc = "call_window"
    /\ LET ex == CbowOuter(encoded_sentences, lens, 0, Bound(context_window_len), pad_token)
       IN /\ ret' = get_input_label_data_cbow(encoded_sentences, context_window_len,
                                              pad_token, lens)
          /\ visited' = [k \in 1..Len(ex) |-> <<ex[k].s, ex[k].i>>]
          /\ substituted' = \E k \in 1..Len(ex) :
                               \E j \in 1..Len(ex[k].context) : ex[k].context[j].pad
    /\ pc' = "cbow_done"
    /\ UNCHANGED <<encoded_sentences, lens, prop_train, context_window_len, pad_token,
                   n_vocab, train_idxs>>
    /\ UNCHANGED <<mainVars, epochVars>>

\* --------------------------- utils.get_input_label_data_skip_gram (57-78)
\* for index in range(index, stop): if index != i: context[get_token(...)] = 1
RECURSIVE SkipContextLoopOpen(_, _, _, _, _, _)
SkipContextLoopOpen(sentence, index, stop, i, pad, context) ==
    IF index >= stop - 1 THEN context
    ELSE SkipContextLoopOpen(sentence, index + 1, stop, i, pad,
            IF index # i
            THEN [context EXCEPT ![get_token(sentence, index, pad) + 1] = 1]
            ELSE context)

RECURSIVE SkipContextLoop(_, _, _, _, _, _)
SkipContextLoop(sentence, index, stop, i, pad, context) ==
    IF index >= stop THEN context
    ELSE SkipContextLoop(sentence, index + 1, stop, i, pad,
            IF index # i
            THEN [context EXCEPT ![get_token(sentence, index, pad) + 1] = 1]
            ELSE context)

\* for (i, token) in enumerate(sentence): if token == 0: break; ...
RECURSIVE SkipInner(_, _, _, _, _)
SkipInner(sentence, i, bound, pad, nvocab) ==
    IF i >= Len(sentence) THEN <<>>
    ELSE IF At(sentence, i) = 0 THEN <<>>
    ELSE <<[i |-> i, token |-> At(sentence, i),
            context |-> SkipContextLoop(sentence, i - bound, i + bound + 1, i, pad,
                                        [v \in 1..nvocab |-> 0])]>>
         \o SkipInner(sentence, i + 1, bound, pad, nvocab)

\* for sentence in sentences: the examples of all sentences from position s on.
RECURSIVE SkipOuter(_, _, _, _, _)
SkipOuter(sentences, s, bound, pad, nvocab) ==
    IF s >= Len(sentences) THEN <<>>
    ELSE LET inner == SkipInner(At(sentences, s), 0, bound, pad, nvocab)
         IN [k \in 1..Len(inner) |->
                [s |-> s, i |-> inner[k].i, token |-> inner[k].token,
                 context |-> inner[k].context]]
            \o SkipOuter(sentences, s + 1, bound, pad, nvocab)

\* The returned pair (numpy.array(token_list), numpy.array(context_list)).
get_input_label_data_skip_gram(sentences, cwl, pad, nvocab) ==
    LET ex == SkipOuter(sentences, 0, Bound(cwl), pad, nvocab)
    IN <<[k \in 1..Len(ex) |-> ex[k].token], [k \in 1..Len(ex) |-> ex[k].context]>>

CallSkipGram ==
    /\ pc = "call_window"
    /\ LET ex == SkipOuter(encoded_sentences, 0, Bound(context_window_len), pad_token, n_vocab)
       IN /\ ret' = get_input_label_data_skip_gram(encoded_sentences, context_window_len,
                                                   pad_token, n_vocab)
          /\ visited' = [k \in 1..Len(ex) |-> <<ex[k].s, ex[k].i>>]
    /\ pc' = "skip_gram_done"
    /\ UNCHANGED <<encoded_sentences, lens, prop_train, context_window_len, pad_token,
                   n_vocab, train_idxs, substituted>>
    /\ UNCHANGED <<mainVars, epochVars>>

\* ------------------------------------------- train.train_epoch (102-149)
\* One pass over a loader of n batches. model.train() comes first (line 111);
\* every batch then runs the forward pass in the model's current mode and, when
\* training is set, optimizer.zero_grad / loss.backward / optimizer.step.
\* The result is the model afterwards and, per batch, what happened.
train_epoch(mode, prm, n, training) ==
    LET entered == "train"
    IN [mode |-> entered,
        params |-> IF training THEN prm + n ELSE prm,
        log |-> [b \in 1..n |-> [mode |-> entered, optimizer |-> training]]]

\* ---------------------------------------------- train.validate (152-168)
\* model.eval(), then train_epoch(..., training=False) under torch.no_grad().
validate(mode, prm, n) ==
    LET evalMode == "eval"
    IN train_epoch(evalMode, prm, n, FALSE)

\* A call train_epoch(args, model, loaders["train"], optimizer, criterion, device).
CallTrainEpoch ==
    /\ pc \in {"idle", "train_epoch_done", "validate_done"}
    /\ calls < MaxCalls
    /\ LET r == train_epoch(model_mode, params, loader_len.train, TRUE)
       IN /\ model_mode' = r.mode
          /\ params' = r.params
          /\ batch_log' = r.log
    /\ params_before' = params
    /\ calls' = calls + 1
    /\ pc' = "train_epoch_done"
    /\ UNCHANGED <<dataVars, mainVars, loader_len>>

\* A call validate(args, model, loaders["val"], optimizer, criterion, device).
CallValidate ==
    /\ pc \in {"idle", "train_epoch_done", "validate_done"}
    /\ calls < MaxCalls
    /\ LET r == validate(model_mode, params, loader_len.val)
       IN /\ model_mode' = r.mode
          /\ params' = r.params
          /\ batch_log' = r.log
    /\ params_before' = params
    /\ calls' = calls + 1
    /\ pc' = "validate_done"
    /\ UNCHANGED <<dataVars, mainVars, loader_len>>

\* ---------------------------------------------------- train.main (171-264)
\* Lines 172-177: get_device, read_analogies, then the branch on downstream_eval.
MainStart ==
    /\ pc = "main"
    /\ analogies_loaded' = TRUE
    /\ pc' = IF args.downstream_eval THEN "downstream_eval" ELSE "setup_dataloader"
    /\ UNCHANGED <<args, word_vec_exists, downstream_runs, loaders_built,
                   epochs_trained, ckpt_epochs, word_vec_saved, epoch>>
    /\ UNCHANGED <<dataVars, epochVars>>

\* Where control goes after downstream_validation returned (line 181: return).
AfterDownstreamFallThrough == "setup_dataloader"

AfterDownstream == "returned"

\* Lines 178-181: the assert on the word-vector file, downstream_validation, return.
MainDownstreamEval ==
    /\ pc = "downstream_eval"
    /\ IF ~word_vec_exists
       THEN /\ pc' = "AssertionError: need to train the word vecs first!"
            /\ UNCHANGED downstream_runs
       ELSE /\ downstream_runs' = downstream_runs + 1
            /\ pc' = AfterDownstream
    /\ UNCHANGED <<args, word_vec_exists, analogies_loaded, loaders_built,
                   epochs_trained, ckpt_epochs, word_vec_saved, epoch>>
    /\ UNCHANGED <<dataVars, epochVars>>

\* Lines 201-215: one iteration's training pass.
LoopTrain ==
    /\ pc = "loop"
    /\ epoch < args.num_epochs
    /\ LET r == train_epoch(model_mode, params, loader_len.train, TRUE)
       IN /\ model_mode' = r.mode
          /\ params' = r.params
          /\ batch_log' = r.log
    /\ params_before' = params
    /\ epochs_trained' = epochs_trained + 1
    /\ pc' = IF epoch % args.val_every = 0 THEN "loop_validate" ELSE "loop_save"
    /\ UNCHANGED <<args, word_vec_exists, analogies_loaded, downstream_runs,
                   loaders_built, ckpt_epochs, word_vec_saved, epoch>>
    /\ UNCHANGED <<dataVars, loader_len, calls>>

\* Lines 217-228: the validation pass of an iteration with epoch % val_every == 0.
LoopValidate ==
    /\ pc = "loop_validate"
    /\ LET r == validate(model_mode, params, loader_len.val)
       IN /\ model_mode' = r.mode
          /\ params' = r.params
          /\ batch_log' = r.log
    /\ params_before' = params
    /\ pc' = "loop_save"
    /\ UNCHANGED <<dataVars, mainVars, loader_len, calls>>

\* Lines 247-250: the checkpoint of an iteration, and the step to the next epoch.
LoopSave ==
    /\ pc = "loop_save"
    /\ ckpt_epochs' = IF epoch # 0 /\ epoch % args.save_every = 0
                      THEN Append(ckpt_epochs, epoch)
                      ELSE ckpt_epochs
    /\ epoch' = epoch + 1
    /\ pc' = "loop"
    /\ UNCHANGED <<args, word_vec_exists, analogies_loaded, downstream_runs,
                   loaders_built, epochs_trained, word_vec_saved>>
    /\ UNCHANGED <<dataVars, epochVars>>

\* Lines 252-264: after the loop: figures, save_word2vec_format, downstream_validation.
LoopExit ==
    /\ pc = "loop"
    /\ epoch >= args.num_epochs
    /\ word_vec_saved' = TRUE
    /\ word_vec_exists' = TRUE
    /\ downstream_runs' = downstream_runs + 1
    /\ pc' = "returned"
    /\ UNCHANGED <<args, analogies_loaded, loaders_built, epochs_trained,
                   ckpt_epochs, epoch>>
    /\ UNCHANGED <<dataVars, epochVars>>

\* ---------------------------------------------------------- initial states
\* Rows of at most one token: the split never looks inside a sentence.
SplitRows == {r \in EncodedRows(MaxLen) : Len(r.s) <= 1}

\* prop_train values tried, in tenths.
PropTrains == {0, 3, 5, DefaultPropTrain, 10}

Sentences(rows) == [k \in 1..Len(rows) |-> rows[k].s]

Lens(rows) == [k \in 1..Len(rows) |-> <<rows[k].l>>]

Args == [downstream_eval : BOOLEAN, num_epochs : 0..MaxEpochs,
         val_every : 1..MaxEvery, save_every : 1..MaxEvery]

\* The values the variables of a part hold while another part is explored.
DataIdle ==
    /\ encoded_sentences = <<>>
    /\ lens = <<>>
    /\ prop_train = DefaultPropTrain
    /\ context_window_len = MainContextWindowLen
    /\ pad_token = 0
    /\ n_vocab = Cardinality(RealTokens) + 1
    /\ train_idxs = {}
    /\ ret = <<>>
    /\ visited = <<>>
    /\ substituted = FALSE

MainIdle ==
    /\ args = [downstream_eval |-> FALSE, num_epochs |-> 0, val_every |-> 1,
               save_every |-> 1]
    /\ word_vec_exists = FALSE
    /\ analogies_loaded = FALSE
    /\ downstream_runs = 0
    /\ loaders_built = FALSE
    /\ epochs_trained = 0
    /\ ckpt_epochs = <<>>
    /\ word_vec_saved = FALSE
    /\ epoch = 0

EpochIdle ==
    /\ model_mode = "train"
    /\ params = 0
    /\ params_before = 0
    /\ loader_len = [train |-> 0, val |-> 0]
    /\ batch_log = <<>>
    /\ calls = 0

\* Inputs of create_train_val_splits, called directly or from setup_dataloader.
InitSplit ==
    /\ \E rows \in SeqUpTo(SplitRows, MaxSentences) :
          /\ encoded_sentences = Sentences(rows)
          /\ lens = Lens(rows)
    /\ prop_train \in PropTrains
    /\ context_window_len = MainContextWindowLen
    /\ pad_token = 0
    /\ n_vocab = Cardinality(RealTokens) + 1
    /\ train_idxs = {}
    /\ ret = <<>>
    /\ visited = <<>>
    /\ substituted = FALSE
    /\ pc \in {"call_split", "setup_dataloader"}
    /\ MainIdle
    /\ EpochIdle

\* Rows of at most three tokens, used as the first of two sentences.
ShortRows == {r \in EncodedRows(MaxLen) : Len(r.s) <= 3}

\* Inputs of the two windowing functions: one encoded row, or a short row
\* followed by any row.
InitWindow ==
    /\ \E rows \in [1..1 -> EncodedRows(MaxLen)]
                   \cup {<<a, b>> : a \in ShortRows, b \in EncodedRows(MaxLen)} :
          /\ encoded_sentences = Sentences(rows)
          /\ lens = Lens(rows)
    /\ prop_train = DefaultPropTrain
    /\ context_window_len \in 0..MaxWindow
    /\ pad_token \in {0, 2}
    /\ n_vocab = Cardinality(RealTokens) + 1
    /\ train_idxs = {}
    /\ ret = <<>>
    /\ visited = <<>>
    /\ substituted = FALSE
    /\ pc = "call_window"
    /\ MainIdle
    /\ EpochIdle

\* A run of train.py: any command line, the word-vector file present or not.
InitMain ==
    /\ args \in Args
    /\ word_vec_exists \in BOOLEAN
    /\ analogies_loaded = FALSE
    /\ downstream_runs = 0
    /\ loaders_built = FALSE
    /\ epochs_trained = 0
    /\ ckpt_epochs = <<>>
    /\ word_vec_saved = FALSE
    /\ epoch = 0
    /\ \E rows \in SeqUpTo(SplitRows, 1) :
          /\ encoded_sentences = Sentences(rows)
          /\ lens = Lens(rows)
    /\ prop_train = DefaultPropTrain
    /\ context_window_len = MainContextWindowLen
    /\ pad_token = 0
    /\ n_vocab = Cardinality(RealTokens) + 1
    /\ train_idxs = {}
    /\ ret = <<>>
    /\ visited = <<>>
    /\ substituted = FALSE
    /\ pc = "main"
    /\ EpochIdle

\* A freshly built model (train mode) and loaders of any size.
InitEpoch ==
    /\ model_mode = "train"
    /\ params = 0
    /\ params_before = 0
    /\ loader_len \in [train : 0..MaxBatches, val : 0..MaxBatches]
    /\ batch_log = <<>>
    /\ calls = 0
    /\ pc = "idle"
    /\ DataIdle
    /\ MainIdle

\* The epoch loop of main entered with loaders and a fresh model, as it would
\* run once setup_dataloader returned.
InitLoop ==
    /\ args \in {a \in Args : ~a.downstream_eval}
    /\ word_vec_exists \in BOOLEAN
    /\ analogies_loaded = TRUE
    /\ downstream_runs = 0
    /\ loaders_built = TRUE
    /\ epochs_trained = 0
    /\ ckpt_epochs = <<>>
    /\ word_vec_saved = FALSE
    /\ epoch = 0
    /\ model_mode = "train"
    /\ params = 0
    /\ params_before = 0
    /\ loader_len \in [train : 1..MaxBatches, val : 1..MaxBatches]
    /\ batch_log = <<>>
    /\ calls = 0
    /\ pc = "loop"
    /\ DataIdle

\* ---------------------------------------------------------- specifications
NextSplit == CallCreateTrainValSplits \/ SetupDataloader
SpecSplit == InitSplit /\ [][NextSplit]_vars

NextWindow == CallCbow \/ CallSkipGram
SpecWindow == InitWindow /\ [][NextWindow]_vars

NextMain == MainStart \/ MainDownstreamEval \/ SetupDataloader
SpecMain == InitMain /\ [][NextMain]_vars

NextEpoch == CallTrainEpoch \/ CallValidate
SpecEpoch == InitEpoch /\ [][NextEpoch]_vars

NextLoop == LoopTrain \/ LoopValidate \/ LoopSave \/ LoopExit
SpecLoop == InitLoop /\ [][NextLoop]_vars

Init == InitMain
Next == NextMain
Spec == SpecMain

\* ------------------------------------------------------------- properties
\* The members of a finite set of integers in increasing order.
Sorted(S) ==
    CHOOSE f \in [1..Cardinality(S) -> S] :
        \A a, b \in 1..Cardinality(S) : a < b => f[a] < f[b]

Min(a, b) == IF a < b THEN a ELSE b

\* <<s, i>> comes before <<t, j>>: earlier sentence, or same sentence and smaller i.
Before(x, y) == x[1] < y[1] \/ (x[1] = y[1] /\ x[2] < y[2])

\* C1: create_train_val_splits partitions its input. With T the indexes drawn,
\* train_sentences is the input at the indexes of T and val_sentences the input
\* at the other indexes, both in increasing index order, so every index lands in
\* exactly one of them; len(train_sentences) is int(n * prop_train + 0.5) and
\* len(val_sentences) is n - len(train_sentences).
C1_SplitPartitionsInput ==
    pc = "split_done" =>
        LET n == Len(encoded_sentences)
            tr == Sorted(train_idxs)
            va == Sorted((0..(n - 1)) \ train_idxs)
            m == Len(ret[1])
        IN /\ Len(ret) = 2
           /\ train_idxs \subseteq 0..(n - 1)
           /\ ret[1] = [k \in 1..Len(tr) |-> At(encoded_sentences, tr[k])]
           /\ ret[2] = [k \in 1..Len(va) |-> At(encoded_sentences, va[k])]
           /\ 10 * m <= n * prop_train + 5
           /\ n * prop_train + 5 < 10 * (m + 1)
           /\ Len(ret[2]) = n - m

\* C1 witness: three sentences split 2 + 1 with the train indexes not adjacent.
C1_Witness ==
    /\ pc = "split_done"
    /\ Len(encoded_sentences) = 3
    /\ train_idxs = {0, 2}
    /\ Len(ret[1]) = 2
    /\ Len(ret[2]) = 1
    /\ At(encoded_sentences, 0) # At(encoded_sentences, 2)

\* C2: the call utils.create_train_val_splits(all_sentences=encoded_sentences,
\* lens=lens) made by setup_dataloader succeeds and returns four values, the
\* third and fourth being the lens entries of the train and of the validation
\* sentences, entry k belonging to sentence k of the same split.
C2_SetupSplitReturnsFour ==
    pc \in {"TypeError", "ValueError", "splits_unpacked"} =>
        /\ pc = "splits_unpacked"
        /\ Len(ret) = 4
        /\ LET n == Len(encoded_sentences)
               tr == Sorted(train_idxs)
               va == Sorted((0..(n - 1)) \ train_idxs)
           IN /\ ret[3] = [k \in 1..Len(tr) |-> At(lens, tr[k])]
              /\ ret[4] = [k \in 1..Len(va) |-> At(lens, va[k])]

\* C3: get_input_label_data_cbow returns as many contexts as labels, and every
\* context has exactly 2 * floor(context_window_len / 2) tokens.
C3_CbowShapesMatch ==
    pc = "cbow_done" =>
        /\ Len(ret[1]) = Len(ret[2])
        /\ \E b \in 0..context_window_len :
              /\ 2 * b <= context_window_len
              /\ context_window_len < 2 * b + 2
              /\ \A k \in 1..Len(ret[1]) : Len(ret[1][k]) = 2 * b

\* C3 witness: an odd window length, several examples, contexts of two tokens.
C3_Witness ==
    /\ pc = "cbow_done"
    /\ context_window_len = 3
    /\ Len(ret[2]) >= 3
    /\ Len(ret[1][1]) = 2

C7_SkipGramWindow ==
    pc = "skip_gram_done" =>
        LET b == context_window_len \div 2
            Real(s, i) == \A j \in 0..i : At(At(encoded_sentences, s), j) # 0
        IN /\ Len(ret[1]) = Len(ret[2])
           /\ Len(ret[1]) = Len(visited)
           /\ \A k \in 1..Len(visited) :
                 LET s == visited[k][1]
                     i == visited[k][2]
                     sentence == At(encoded_sentences, s)
                     ids == {IF j < 0 \/ j >= Len(sentence) THEN pad_token
                             ELSE At(sentence, j) : j \in ((i - b)..(i + b)) \ {i}}
                 IN /\ s \in 0..(Len(encoded_sentences) - 1)
                    /\ i \in 0..(Len(sentence) - 1)
                    /\ Real(s, i)
                    /\ ret[1][k] = At(sentence, i)
                    /\ Len(ret[2][k]) = n_vocab
                    /\ \A v \in 0..(n_vocab - 1) :
                          At(ret[2][k], v) = IF v \in ids THEN 1 ELSE 0
           /\ \A k, l \in 1..Len(visited) : k < l => Before(visited[k], visited[l])
           /\ \A s \in 0..(Len(encoded_sentences) - 1) :
                 \A i \in 0..(Len(At(encoded_sentences, s)) - 1) :
                    Real(s, i) => \E k \in 1..Len(visited) : visited[k] = <<s, i>>

\* C7 witness: a padded sentence and a pad_token other than 0; the first example's
\* window reaches before the sentence (pad_token is marked) and a later one's
\* reaches into the padding (id 0 is marked).
C7_Witness ==
    /\ pc = "skip_gram_done"
    /\ pad_token = 2
    /\ context_window_len = 2
    /\ encoded_sentences = << <<1, 1, 0, 0>> >>
    /\ Len(visited) = 2
    /\ ret[2][1] = <<0, 1, 1>>
    /\ ret[2][2] = <<1, 1, 0>>

\* C8: in get_input_label_data_cbow every context position i-bound..i+bound of an
\* emitted label position i of sentence s is a real-token position, that is,
\* strictly less than lens[s][0].
C8_CbowContextsAvoidPadding ==
    pc = "cbow_done" =>
        \A k \in 1..Len(visited) :
            \A j \in (visited[k][2] - context_window_len \div 2)
                     ..(visited[k][2] + context_window_len \div 2) :
                j < At(At(lens, visited[k][1]), 0)

C6_ValidateRunsInEvalMode ==
    pc = "validate_done" =>
        /\ \A b \in 1..Len(batch_log) :
              batch_log[b].mode = "eval" /\ ~batch_log[b].optimizer
        /\ params = params_before

\* C9: once main has run its epoch loop, a checkpoint has been written at epoch
\* e of 0..num_epochs-1 exactly when e != 0 and e % save_every == 0.
C9_CheckpointEverySaveEvery ==
    (~args.downstream_eval /\ pc \in {"returned", "TypeError", "ValueError"}) =>
        {ckpt_epochs[k] : k \in 1..Len(ckpt_epochs)}
            = {e \in 0..(args.num_epochs - 1) : e # 0 /\ e % args.save_every = 0}

\* The epoch loop on its own (entered as if setup_dataloader had returned):
\* the checkpoints written so far are those of the finished epochs e with
\* e != 0 and e % save_every == 0, and each epoch's checkpoint comes after its
\* training pass.
LoopCheckpointSchedule ==
    /\ ckpt_epochs = Sorted({e \in 1..(epoch - 1) : e % args.save_every = 0})
    /\ epochs_trained = IF pc \in {"loop_validate", "loop_save"} THEN epoch + 1 ELSE epoch

====
